---------------------------- MODULE Spec2Model ----------------------------
(***************************************************************************)
(* State-machine model of the step-sequencer playback engine of            *)
(* src/index_combined.js (src/unnamed/part_000 is the same program with    *)
(* call tracking and extra logging added; its transport logic is           *)
(* identical).                                                             *)
(*                                                                         *)
(* Every event handler of the page runs to completion on the single        *)
(* event-loop thread, so each handler is one action.  An async function    *)
(* is split at its await: the part of playAudio before                     *)
(* `await loadAudioBuffers` belongs to the action of whoever called it,    *)
(* the part after it is the action LoadComplete.                           *)
(*                                                                         *)
(* Times are integers in milliseconds.  The tempi and buffer durations     *)
(* used are such that every quotient the code computes is exact.           *)
(***************************************************************************)
EXTENDS Integers, Sequences, FiniteSets, Bags, TLC

-----------------------------------------------------------------------------
(* Bounds of the model *)

\* at most this many playAudio invocations are suspended in their load
MaxPending == 2
\* at most this many buffer sources are ever created
MaxSources == 2
\* the audio clock advances at most this many times ...
MaxTicks == 1
\* ... by this many milliseconds each time
TickLen == 10000
\* the largest tempo a function is called with on its own
MaxTempo == 300

-----------------------------------------------------------------------------
(* Program constants *)

\* `64 * calculateStepTime()`: steps per sequence
StepsPerSequence == 64
\* `steps.length !== 64`: the grid length the loader insists on
RequiredSteps == 64

Max(a, b) == IF a >= b THEN a ELSE b
Min(a, b) == IF a <= b THEN a ELSE b

-----------------------------------------------------------------------------
(* Project files the user can pick.                                        *)
(*                                                                         *)
(* A file is the parsed JSON.  A field that may be missing has a has-flag; *)
(* projectBPM = 0 stands for a missing (or zero) tempo, both falsy.        *)
(* projectURLs is the list of channel URLs, TRUE for a non-empty URL and   *)
(* FALSE for an empty one.  projectSequences lists the sequences in        *)
(* insertion order (Sequence0 first), each the list of its channels in     *)
(* insertion order (ch0 first); steps is the boolean grid.                 *)
(* trimSettings has one entry per URL (parallel-indexed, spec section 3).  *)

StepsOf(active, n) == [i \in 1..n |-> (i - 1) \in active]

Channel(active) == [hasSteps |-> TRUE, steps |-> StepsOf(active, RequiredSteps)]

NoStepsChannel == [hasSteps |-> FALSE, steps |-> << >>]

Trim(s, e) == [startSliderValue |-> s, endSliderValue |-> e]

MkFile(trims, urls, bpm, seqs) ==
    [hasTrim |-> TRUE, trimSettings |-> trims,
     hasURLs |-> TRUE, projectURLs |-> urls,
     projectBPM |-> bpm,
     hasSeqs |-> TRUE, projectSequences |-> seqs]

\* two sequences, one channel, step 4 active in both, 120 bpm
TwoSeq == MkFile(<<Trim(0, 100)>>, <<TRUE>>, 120,
                 << <<Channel({4})>>, <<Channel({4})>> >>)
\* one sequence at 60 bpm with more channels than URLs: ch0 has a URL, ch1
\* an empty URL, ch2 has no steps array, ch3 is past the end of the URL list
Wide == MkFile(<<Trim(25, 75), Trim(0, 100)>>, <<TRUE, FALSE>>, 60,
               << <<Channel({0}), Channel({0}), NoStepsChannel, Channel({8})>> >>)
\* no active step anywhere, 60 bpm, reversed trim
Silent == MkFile(<<Trim(50, 25)>>, <<TRUE>>, 60, << <<Channel({})>> >>)
\* passes the loader's validation but has no projectURLs
NoURLs == [MkFile(<<Trim(0, 100)>>, << >>, 120, << <<Channel({0})>> >>)
             EXCEPT !.hasURLs = FALSE]
NoTrim == [TwoSeq EXCEPT !.hasTrim = FALSE, !.trimSettings = << >>]
NoBPM == [TwoSeq EXCEPT !.projectBPM = 0]
ShortSteps == MkFile(<<Trim(0, 100)>>, <<TRUE>>, 120,
                     << <<[hasSteps |-> TRUE, steps |-> StepsOf({0}, RequiredSteps - 1)]>> >>)
NoSequences == [TwoSeq EXCEPT !.hasSeqs = FALSE, !.projectSequences = << >>]

Files == <<TwoSeq, Wide, Silent, NoURLs, NoTrim, NoBPM, ShortSteps, NoSequences>>

FileIds == 1..Len(Files)

\* sequenceData before any file was loaded
Undefined == 0

\* total durations (ms) a decoded buffer can have
Durations == {1000}

\* a channel whose load failed
Null == 0


-----------------------------------------------------------------------------
(* Program state *)

VARIABLES
    sequenceData,       \* id of the current project file, or Undefined
    BPM,                \* global tempo, 0 while still undefined
    activeSources,      \* the Set of sources between start and ended
    isLooping,
    isStoppedManually,
    cumulativeOffset,   \* ms
    playDisabled,       \* playButton.disabled
    pending,            \* bag of playAudio invocations suspended in their load
    halted,             \* sources stopped by stopAudio whose 'ended' event
                        \* has not been delivered yet
    currentTime,        \* audioContext.currentTime, ms
    nextId,             \* identity of the next source object created
    restarts,           \* history: per schedule pass, the number of playAudio
                        \* invocations started by 'ended' handlers of its sources
    last,               \* history: the handler that ran last
    call,               \* a function of the program called on its own: its
                        \* name, its arguments and its result (FunctionSpec)
    userDone            \* history: the user has pressed stop and presses
                        \* neither button again (RestSpec)

vars == <<sequenceData, BPM, activeSources, isLooping, isStoppedManually,
          cumulativeOffset, playDisabled, pending, halted, currentTime,
          nextId, restarts, last, call, userDone>>

\* the state as one record, threaded through the functions of the program
Cur ==
    [sequenceData |-> sequenceData, BPM |-> BPM,
     activeSources |-> activeSources, isLooping |-> isLooping,
     isStoppedManually |-> isStoppedManually,
     cumulativeOffset |-> cumulativeOffset, playDisabled |-> playDisabled,
     pending |-> pending, halted |-> halted, currentTime |-> currentTime,
     nextId |-> nextId, restarts |-> restarts, last |-> last]

Assigns(st) ==
    /\ sequenceData' = st.sequenceData
    /\ BPM' = st.BPM
    /\ activeSources' = st.activeSources
    /\ isLooping' = st.isLooping
    /\ isStoppedManually' = st.isStoppedManually
    /\ cumulativeOffset' = st.cumulativeOffset
    /\ playDisabled' = st.playDisabled
    /\ pending' = st.pending
    /\ halted' = st.halted
    /\ currentTime' = st.currentTime
    /\ nextId' = st.nextId
    /\ restarts' = st.restarts
    /\ last' = st.last

Becomes(st) ==
    /\ Assigns(st)
    /\ UNCHANGED <<call, userDone>>

\* a suspended playAudio invocation: the project it destructured and, as
\* history, a note: "restart" when the 'ended' handler of the last source of
\* the set called it, "plain" when anything else did, and "stopped" from
\* the moment the stop handler runs while it is suspended; for a restart,
\* due is the time at which the cycle of that last source is over
Invocation(proj, by) == [proj |-> proj, note |-> by.note, due |-> by.due]

\* history: who calls playAudio
Plain == [note |-> "plain", due |-> 0]

Restart(source) == [note |-> "restart", due |-> source.now + source.span]

\* history record of a handler run
\*   play:      "none" | "rejected" | "started", the playAudio call it made
\*   bufs:      the buffers the load resumed by a LoadComplete resolved to
\*   scheduled: whether that LoadComplete ran a schedule pass
\*   lacking:   whether the file of a FileChange lacked a required field
Ran(op) ==
    [op |-> op, play |-> "none", bufs |-> << >>, scheduled |-> FALSE,
     lacking |-> FALSE]

-----------------------------------------------------------------------------
(* The functions of the program *)

\* mutant: the slider values are taken as times, not as percentages
calculateTrimTimes_asTimes(trimSetting, totalDuration) ==
    LET startTime == Max(0, trimSetting.startSliderValue)
        endTime == trimSetting.endSliderValue
    IN  [startTime |-> startTime, duration |-> Max(0, endTime - startTime)]

\* mutant: the duration is not clamped at 0
calculateTrimTimes_noClamp(trimSetting, totalDuration) ==
    LET startTime == Max(0, Min((trimSetting.startSliderValue * totalDuration) \div 100,
                                totalDuration))
        endTime == (trimSetting.endSliderValue * totalDuration) \div 100
    IN  [startTime |-> startTime, duration |-> endTime - startTime]

\* const calculateTrimTimes = (trimSetting, totalDuration) => ...
calculateTrimTimes(trimSetting, totalDuration) ==
    LET startTime == Max(0, Min((trimSetting.startSliderValue * totalDuration) \div 100,
                                totalDuration))
        endTime == (trimSetting.endSliderValue * totalDuration) \div 100
    IN  [startTime |-> startTime, duration |-> Max(0, endTime - startTime)]

\* mutant: the length of a beat, not of a step
calculateStepTime_beat(bpm) == 60000 \div bpm

\* const calculateStepTime = () => 60 / BPM / 4, in ms
calculateStepTime(bpm) == (60000 \div bpm) \div 4

\* the source object: start(when, offset, duration) plus, as history, where
\* in which schedule pass it was made, what the clock and tempo were and how
\* long the cycle scheduled by that pass is
createAndStartAudioSource(st, audioBuffer, trimSetting, playbackTime, tag) ==
    IF audioBuffer = Null THEN st
    ELSE LET t == calculateTrimTimes(trimSetting, audioBuffer)
             source == [id |-> st.nextId,
                        when |-> st.currentTime + playbackTime + st.cumulativeOffset,
                        offset |-> t.startTime,
                        duration |-> t.duration,
                        total |-> audioBuffer,
                        pass |-> tag.pass, seq |-> tag.seq, ch |-> tag.ch,
                        step |-> tag.step,
                        now |-> st.currentTime, bpm |-> st.BPM,
                        span |-> tag.span]
         IN  [st EXCEPT !.activeSources = @ \cup {source}, !.nextId = @ + 1]

schedulePlaybackForStep(st, audioBuffer, trimSetting, stepIndex, tag) ==
    LET playbackTime == stepIndex * calculateStepTime(st.BPM)
    IN  createAndStartAudioSource(st, audioBuffer, trimSetting, playbackTime,
                                  [tag EXCEPT !.step = stepIndex])

\* steps.forEach((active, stepIndex) => { if (active) ... }), from position
\* i: the loop body only acts at the active positions, taken in order
RECURSIVE scheduleSteps(_, _, _, _, _, _)
scheduleSteps(st, steps, i, audioBuffer, trimSetting, tag) ==
    LET rest == {j \in i..Len(steps) : steps[j]}
    IN  IF rest = {} THEN st
        ELSE LET n == CHOOSE j \in rest : \A m \in rest : j <= m
             IN  scheduleSteps(schedulePlaybackForStep(st, audioBuffer, trimSetting, n - 1, tag),
                               steps, n + 1, audioBuffer, trimSetting, tag)

\* trimSettings[channelIndex] past the end of the list: undefined, which no
\* channel with a buffer reads (trimSettings has an entry for every URL)
NoTrimSetting == "undefined"

\* mutant: the buffer of the next channel
channelBuffer_offByOne(audioBuffers, channelIndex) ==
    IF channelIndex + 2 <= Len(audioBuffers) THEN audioBuffers[channelIndex + 2] ELSE Null

\* audioBuffers[channelIndex]: an index past the end reads undefined
channelBuffer(audioBuffers, channelIndex) ==
    IF channelIndex + 1 <= Len(audioBuffers) THEN audioBuffers[channelIndex + 1] ELSE Null

\* Object.entries(channels).forEach(..., channelIndex), from position c
RECURSIVE scheduleChannels(_, _, _, _, _, _)
scheduleChannels(st, channels, c, audioBuffers, trimSettings, tag) ==
    IF c > Len(channels) THEN st
    ELSE LET channelData == channels[c]
             audioBuffer == channelBuffer(audioBuffers, c - 1)
             trimSetting == IF c <= Len(trimSettings) THEN trimSettings[c] ELSE NoTrimSetting
             done == IF audioBuffer # Null /\ channelData.hasSteps
                       THEN scheduleSteps(st, channelData.steps, 1, audioBuffer,
                                          trimSetting, [tag EXCEPT !.ch = c - 1])
                       ELSE st
         IN  scheduleChannels(done, channels, c + 1, audioBuffers, trimSettings, tag)

\* mutant: a sequence that started no source takes no time
RECURSIVE scheduleSequences_skipsSilent(_, _, _, _, _, _)
scheduleSequences_skipsSilent(st, sequences, k, audioBuffers, trimSettings, tag) ==
    IF k > Len(sequences) THEN st
    ELSE LET sequenceDuration == StepsPerSequence * calculateStepTime(st.BPM)
             done == scheduleChannels(st, sequences[k], 1, audioBuffers, trimSettings,
                                      [tag EXCEPT !.seq = k - 1])
             advance == IF done.nextId = st.nextId THEN 0 ELSE sequenceDuration
         IN  scheduleSequences_skipsSilent([done EXCEPT !.cumulativeOffset = @ + advance],
                                           sequences, k + 1, audioBuffers, trimSettings, tag)

\* Object.entries(sequences).forEach(...), from position k
RECURSIVE scheduleSequences(_, _, _, _, _, _)
scheduleSequences(st, sequences, k, audioBuffers, trimSettings, tag) ==
    IF k > Len(sequences) THEN st
    ELSE LET sequenceDuration == StepsPerSequence * calculateStepTime(st.BPM)
             done == scheduleChannels(st, sequences[k], 1, audioBuffers, trimSettings,
                                      [tag EXCEPT !.seq = k - 1])
         IN  scheduleSequences([done EXCEPT !.cumulativeOffset = @ + sequenceDuration],
                               sequences, k + 1, audioBuffers, trimSettings, tag)

\* mutant: the sources are stopped but the set is not cleared
stopAudio_noClear(st) ==
    [st EXCEPT !.halted = @ \cup st.activeSources]

stopAudio(st) ==
    [st EXCEPT !.halted = @ \cup st.activeSources, !.activeSources = {}]

validateSequenceData(data) ==
    /\ data # Undefined
    /\ Files[data].hasURLs
    /\ Files[data].hasSeqs

\* mutant: no check of the loaded buffers
isValidAudioBuffers_always(buffers) == TRUE

isValidAudioBuffers(buffers) == \E c \in DOMAIN buffers : buffers[c] # Null

\* mutant: cumulativeOffset is reset before the project data is validated
playAudio_resetsFirst(st, by) ==
    IF ~validateSequenceData(st.sequenceData)
      THEN [st EXCEPT !.cumulativeOffset = 0, !.last.play = "rejected"]
      ELSE LET s1 == [st EXCEPT !.BPM = Files[st.sequenceData].projectBPM]
               s2 == stopAudio(s1)
           IN  [s2 EXCEPT !.cumulativeOffset = 0,
                          !.pending = @ (+) SetToBag({Invocation(st.sequenceData, by)}),
                          !.last.play = "started"]

\* playAudio up to `await loadAudioBuffers(projectURLs)`
playAudio(st, by) ==
    IF ~validateSequenceData(st.sequenceData)
      THEN [st EXCEPT !.last.play = "rejected"]
      ELSE LET s1 == [st EXCEPT !.BPM = Files[st.sequenceData].projectBPM]
               s2 == stopAudio(s1)
           IN  [s2 EXCEPT !.cumulativeOffset = 0,
                          !.pending = @ (+) SetToBag({Invocation(st.sequenceData, by)}),
                          !.last.play = "started"]

\* mutant: the restart is held back after a manual stop
handlePlaybackCompletion_heedsStop(st) ==
    LET s1 == [st EXCEPT !.isStoppedManually = FALSE]
    IN  IF s1.activeSources = {} /\ s1.isLooping /\ ~st.isStoppedManually
          THEN playAudio(s1, Plain)
          ELSE s1

handlePlaybackCompletion(st) ==
    LET s1 == [st EXCEPT !.isStoppedManually = FALSE]
    IN  IF s1.activeSources = {} /\ s1.isLooping
          THEN playAudio(s1, Plain)
          ELSE s1

\* playAudio from the point where the load of invocation inv resolved
playAudioResume(st, inv, audioBuffers) ==
    IF ~isValidAudioBuffers(audioBuffers) THEN st
    ELSE LET f == Files[inv.proj]
             s1 == scheduleSequences(st, f.projectSequences, 1, audioBuffers,
                                     f.trimSettings,
                                     [pass |-> st.nextId, seq |-> 0, ch |-> 0, step |-> 0,
                                      span |-> Len(f.projectSequences) * StepsPerSequence
                                                  * calculateStepTime(st.BPM)])
         IN  handlePlaybackCompletion([s1 EXCEPT !.last.scheduled = TRUE])

\* mutant: the handler does not look at isStoppedManually
handleSourceEnd_ignoresStop(st, source) ==
    LET s1 == [st EXCEPT !.activeSources = @ \ {source}]
    IN  IF s1.activeSources = {} /\ s1.isLooping
          THEN LET s2 == playAudio(s1, IF source \in st.activeSources
                                         THEN Restart(source) ELSE Plain)
               IN  IF s2.last.play = "started"
                     THEN [s2 EXCEPT !.restarts[source.pass] = @ + 1]
                     ELSE s2
          ELSE s1

\* const handleSourceEnd = (source) => ...
\* History: the invocation is noted "restart" when the source was still in
\* the set, and a call that passes validation is counted for the source's pass.
handleSourceEnd(st, source) ==
    LET s1 == [st EXCEPT !.activeSources = @ \ {source}]
    IN  IF s1.activeSources = {} /\ s1.isLooping /\ ~s1.isStoppedManually
          THEN LET s2 == playAudio(s1, IF source \in st.activeSources
                                         THEN Restart(source) ELSE Plain)
               IN  IF s2.last.play = "started"
                     THEN [s2 EXCEPT !.restarts[source.pass] = @ + 1]
                     ELSE s2
          ELSE s1

\* mutant: the length of the step grid is not checked
validateAudioData_anyLength(data) ==
    ~ \/ ~data.hasTrim
      \/ ~(/\ data.hasSeqs
           /\ Len(data.projectSequences) >= 1
           /\ Len(data.projectSequences[1]) >= 1
           /\ data.projectSequences[1][1].hasSteps)
      \/ data.projectBPM = 0

\* validateAudioData: TRUE when it does not throw
validateAudioData(data) ==
    ~ \/ ~data.hasTrim
      \/ ~(/\ data.hasSeqs
           /\ Len(data.projectSequences) >= 1
           /\ Len(data.projectSequences[1]) >= 1
           /\ data.projectSequences[1][1].hasSteps)
      \/ Len(data.projectSequences[1][1].steps) # RequiredSteps
      \/ data.projectBPM = 0

\* what Promise.all(urls.map(loadAudioFile)) can resolve to: null for an
\* empty URL, a decoded buffer or null (any failure) for the others
LoadResults(urls) ==
    {r \in [DOMAIN urls -> {Null} \cup Durations] :
        \A c \in DOMAIN urls : ~urls[c] => r[c] = Null}

-----------------------------------------------------------------------------
(* The event handlers *)

\* the bounds of the model: a handler whose result exceeds them is not run
Fits(st) ==
    /\ BagCardinality(st.pending) <= MaxPending
    /\ st.nextId <= MaxSources + 1

\* playButton 'click'
playButtonHandler(st) ==
    playAudio([st EXCEPT !.isLooping = TRUE], Plain)

\* history: the invocations suspended when the stop handler runs
MarkStopped(B) ==
    LET S == {[i EXCEPT !.note = "stopped", !.due = 0] : i \in DOMAIN B}
    IN  [j \in S |-> BagCardinality([i \in {i \in DOMAIN B : i.proj = j.proj} |-> B[i]])]

\* mutant: the handler does not set isStoppedManually
stopButtonHandler_noFlag(st) == stopAudio(st)

\* mutant: the handler also switches looping off
stopButtonHandler_unloops(st) ==
    stopAudio([st EXCEPT !.isStoppedManually = TRUE, !.isLooping = FALSE])

\* stopButton 'click'
stopButtonHandler(st) ==
    stopAudio([st EXCEPT !.isStoppedManually = TRUE])

\* processAndLoadAudio: TRUE when it resolves, FALSE when it throws
processAndLoadAudio(file) == validateAudioData(Files[file])

\* fileInput 'change', from the point where the file has been read.
\* `sequenceData.projectURLs.some` throws on a project without projectURLs,
\* after the assignment, and lands in the same catch block.
fileInputHandler(st, file) ==
    IF processAndLoadAudio(file)
      THEN LET s1 == [st EXCEPT !.sequenceData = file]
               data == Files[file]
           IN  IF data.hasURLs /\ \E c \in DOMAIN data.projectURLs : data.projectURLs[c]
                 THEN [s1 EXCEPT !.playDisabled = FALSE]
                 ELSE [s1 EXCEPT !.playDisabled = TRUE]
      ELSE [st EXCEPT !.playDisabled = TRUE]

\* a project file without trimSettings, without
\* projectSequences.Sequence0.ch0.steps of length 64, or without projectBPM
LacksRequired(file) ==
    LET data == Files[file]
    IN  \/ ~data.hasTrim
        \/ ~data.hasSeqs
        \/ data.projectSequences = << >>
        \/ data.projectSequences[1] = << >>
        \/ ~data.projectSequences[1][1].hasSteps
        \/ Len(data.projectSequences[1][1].steps) # 64
        \/ data.projectBPM = 0

\* no function has been called on its own
NoCall == [fn |-> "none", args |-> << >>, result |-> 0]

\* when the playback region of a source is over
EndTime(source) ==
    source.when + Min(source.duration, source.total - source.offset)

Init ==
    /\ sequenceData = Undefined
    /\ BPM = 0
    /\ activeSources = {}
    /\ isLooping = TRUE
    /\ isStoppedManually = FALSE
    /\ cumulativeOffset = 0
    /\ playDisabled \in BOOLEAN     \* set by the page's markup
    /\ pending = EmptyBag
    /\ halted = {}
    /\ currentTime = 0
    /\ nextId = 1
    /\ restarts = [p \in 1..MaxSources |-> 0]
    /\ last = Ran("Init")
    /\ call = NoCall
    /\ userDone = FALSE

PlayClick ==
    /\ ~playDisabled
    /\ LET st == playButtonHandler([Cur EXCEPT !.last = Ran("PlayClick")])
       IN  Fits(st) /\ Becomes(st)

StopClick ==
    LET st == stopButtonHandler([Cur EXCEPT !.last = Ran("StopClick"),
                                            !.pending = MarkStopped(@)])
    IN  Fits(st) /\ Becomes(st)

FileChange(file) ==
    LET st == fileInputHandler([Cur EXCEPT !.last = [Ran("FileChange") EXCEPT
                                                       !.lacking = LacksRequired(file)]],
                               file)
    IN  Fits(st) /\ Becomes(st)

\* the 'ended' event of a source that played to its end; the events are
\* queued as the sources finish, so they arrive in the order of their ends
SourceEnded(source) ==
    /\ source \in activeSources
    /\ currentTime >= EndTime(source)
    /\ \A other \in activeSources : EndTime(source) <= EndTime(other)
    /\ LET st == handleSourceEnd([Cur EXCEPT !.last = Ran("SourceEnded")],
                                 source)
       IN  Fits(st) /\ Becomes(st)

\* the 'ended' event of a source that stopAudio stopped
LateEnded(source) ==
    /\ source \in halted
    /\ LET st == handleSourceEnd([Cur EXCEPT !.halted = @ \ {source},
                                             !.last = Ran("LateEnded")],
                                 source)
       IN  Fits(st) /\ Becomes(st)

\* the load of a suspended playAudio invocation resolves
LoadComplete(inv, audioBuffers) ==
    /\ BagIn(inv, pending)
    /\ LET st == playAudioResume([Cur EXCEPT !.pending = @ (-) SetToBag({inv}),
                                             !.last = [Ran("LoadComplete") EXCEPT
                                                         !.bufs = audioBuffers]],
                                 inv, audioBuffers)
       IN  Fits(st) /\ Becomes(st)

\* the audio clock advances
Tick ==
    /\ currentTime < MaxTicks * TickLen
    /\ currentTime' = currentTime + TickLen
    /\ UNCHANGED <<sequenceData, BPM, activeSources, isLooping, isStoppedManually,
                   cumulativeOffset, playDisabled, pending, halted, nextId,
                   restarts, last, call, userDone>>

Next ==
    \/ PlayClick
    \/ StopClick
    \/ \E file \in FileIds : FileChange(file)
    \/ \E source \in activeSources : SourceEnded(source)
    \/ \E source \in halted : LateEnded(source)
    \/ \E inv \in DOMAIN pending :
         \E audioBuffers \in LoadResults(Files[inv.proj].projectURLs) :
            LoadComplete(inv, audioBuffers)
    \/ Tick

Spec == Init /\ [][Next]_vars

-----------------------------------------------------------------------------
(* The functions of the program, called on their own with arguments drawn  *)
(* from the sets below; the page is left in its initial state.             *)

\* slider values a project file can hold: the loader checks that
\* trimSettings is there, not what its numbers are
SliderValues == {-25, 0, 25, 50, 75, 100, 125, 150}

\* total durations (ms) of a decoded buffer; whole hundreds, so that every
\* percentage of them is a whole number of ms
TotalDurations == {0, 100, 1000, 2500}

\* tempi whose step time is a whole number of ms
Tempi == {bpm \in 1..MaxTempo : 15000 % bpm = 0}

page == <<sequenceData, BPM, activeSources, isLooping, isStoppedManually,
          cumulativeOffset, playDisabled, pending, halted, currentTime,
          nextId, restarts, last, userDone>>

CallTrimTimes(trimSetting, totalDuration) ==
    /\ call' = [fn |-> "calculateTrimTimes",
                args |-> <<trimSetting, totalDuration>>,
                result |-> calculateTrimTimes(trimSetting, totalDuration)]
    /\ UNCHANGED page

CallStepTime(bpm) ==
    /\ call' = [fn |-> "calculateStepTime", args |-> <<bpm>>,
                result |-> calculateStepTime(bpm)]
    /\ UNCHANGED page

\* three channels with a URL each and their own trim settings and steps,
\* two sequences, 120 bpm
Trio == MkFile(<<Trim(0, 100), Trim(25, 75), Trim(50, 25)>>, <<TRUE, TRUE, TRUE>>, 120,
               << <<Channel({0}), Channel({4}), Channel({0, 8})>>,
                  <<Channel({4}), NoStepsChannel, Channel({})>> >>)

\* the projects whose buffers are loaded URL by URL
LoadProjects == {Trio, Wide}

LoadChannels == UNION {DOMAIN project.projectURLs : project \in LoadProjects}

\* the buffer decoded from the audio behind the c-th URL (ms): the buffers
\* of different URLs are told apart by their durations
BufferOf(c) == 1000 * c

\* mutant: the results are collected as the loads resolve
PromiseAll_byArrival(settled) == [i \in 1..Len(settled) |-> settled[i][2]]

\* Promise.all(promises): the array of the values the promises resolved to,
\* each at the index of its promise; settled lists <<index, value>> in the
\* order in which the promises resolved
PromiseAll(settled) ==
    [c \in 1..Len(settled) |->
        settled[CHOOSE i \in DOMAIN settled : settled[i][1] = c][2]]

\* playAudio from `loadAudioBuffers(projectURLs)` on, called on a page that
\* has nothing playing: the loads are in flight
CallLoadAudioBuffers(project) ==
    /\ call' = [fn |-> "loadAudioBuffers", args |-> <<project>>,
                result |-> [settled |-> << >>, audioBuffers |-> << >>, sources |-> {}]]
    /\ UNCHANGED page

\* loadAudioFile of the c-th URL resolves, to null (at once for an empty
\* URL, on any failure for another) or to the decoded buffer; when it is the
\* last one, Promise.all resolves and playAudio goes on to scheduleSequences
LoadSettles(c, buffer) ==
    /\ call.fn = "loadAudioBuffers"
    /\ LET project == call.args[1]
           settled == Append(call.result.settled, <<c, buffer>>)
           audioBuffers == PromiseAll(settled)
           s1 == scheduleSequences([Cur EXCEPT !.BPM = project.projectBPM],
                                   project.projectSequences, 1, audioBuffers,
                                   project.trimSettings,
                                   [pass |-> nextId, seq |-> 0, ch |-> 0, step |-> 0,
                                    span |-> 0])
       IN  /\ c \in DOMAIN project.projectURLs
           /\ \A i \in DOMAIN call.result.settled : call.result.settled[i][1] # c
           /\ buffer \in {Null} \cup (IF project.projectURLs[c] THEN {BufferOf(c)} ELSE {})
           /\ call' = [call EXCEPT !.result =
                         IF Len(settled) < Len(project.projectURLs)
                           THEN [@ EXCEPT !.settled = settled]
                           ELSE [settled |-> settled, audioBuffers |-> audioBuffers,
                                 sources |-> IF isValidAudioBuffers(audioBuffers)
                                               THEN s1.activeSources ELSE {}]]
    /\ UNCHANGED page

FunctionNext ==
    \/ \E s \in SliderValues, e \in SliderValues, totalDuration \in TotalDurations :
         CallTrimTimes(Trim(s, e), totalDuration)
    \/ \E bpm \in Tempi : CallStepTime(bpm)
    \/ \E project \in LoadProjects : CallLoadAudioBuffers(project)
    \/ \E c \in LoadChannels, buffer \in {Null} \cup {BufferOf(d) : d \in LoadChannels} :
         LoadSettles(c, buffer)

FunctionSpec == Init /\ [][FunctionNext]_vars

-----------------------------------------------------------------------------
(* The page with a user who, after some stop click, presses neither button *)
(* again: the loads in flight resolve, the 'ended' events are delivered,   *)
(* the clock advances, and files may still be picked.                      *)

\* stopButton 'click', the last click of the user
LastStopClick ==
    /\ ~userDone
    /\ LET st == stopButtonHandler([Cur EXCEPT !.last = Ran("StopClick"),
                                               !.pending = MarkStopped(@)])
       IN  Fits(st) /\ Assigns(st)
    /\ userDone' = TRUE
    /\ UNCHANGED call

RestNext ==
    \/ ~userDone /\ PlayClick
    \/ ~userDone /\ StopClick
    \/ LastStopClick
    \/ \E file \in FileIds : FileChange(file)
    \/ \E source \in activeSources : SourceEnded(source)
    \/ \E source \in halted : LateEnded(source)
    \/ \E inv \in DOMAIN pending :
         \E audioBuffers \in LoadResults(Files[inv.proj].projectURLs) :
            LoadComplete(inv, audioBuffers)
    \/ Tick

RestSpec == Init /\ [][RestNext]_vars

-----------------------------------------------------------------------------
(* Vocabulary of the properties *)

\* 60 / bpm / 4 seconds, in ms
stepDuration(bpm) == 60000 \div (4 * bpm)

AllNull(buffers) == \A c \in DOMAIN buffers : buffers[c] = Null

\* the (sequence, channel, step) triples, counted from 0, of the active steps
\* of a project whose channel index has a decoded buffer
ExpectedIn(seqs, buffers) ==
    LET Active(k, c) == {i \in DOMAIN seqs[k][c].steps : seqs[k][c].steps[i]}
        Loaded(k) == {c \in DOMAIN seqs[k] :
                        /\ c \in DOMAIN buffers
                        /\ buffers[c] # Null
                        /\ seqs[k][c].hasSteps}
    IN  UNION {UNION {{<<k - 1, c - 1, i - 1>> : i \in Active(k, c)} : c \in Loaded(k)} :
                 k \in DOMAIN seqs}

Expected(proj, buffers) == ExpectedIn(Files[proj].projectSequences, buffers)

\* the current project data is absent or lacks projectURLs or projectSequences
DataLacking ==
    \/ sequenceData = Undefined
    \/ ~Files[sequenceData].hasURLs
    \/ ~Files[sequenceData].hasSeqs

-----------------------------------------------------------------------------
(* C1 *)

\* C1: when the stop handler ran while a playAudio invocation was suspended
\* in its load, the completion of that load creates no source and leaves the
\* Active Source Set as it is.
C1_NoStartAfterStop ==
    [][last'.op = "LoadComplete" =>
       \A inv \in DOMAIN pending :
         \A audioBuffers \in LoadResults(Files[inv.proj].projectURLs) :
            (LoadComplete(inv, audioBuffers) /\ inv.note = "stopped")
               => (activeSources' = activeSources /\ nextId' = nextId)]_vars

-----------------------------------------------------------------------------
(* C2 *)

\* C2: the stop handler halts every active source and leaves the set empty;
\* an 'ended' event of a halted source, delivered while isStoppedManually is
\* true, calls playAudio not.
C2_StopHaltsAll ==
    [][/\ (last'.op = "StopClick" /\ StopClick)
            => (activeSources' = {} /\ activeSources \subseteq halted')
       /\ \A source \in halted :
            (last'.op = "LateEnded" /\ isStoppedManually /\ LateEnded(source))
               => (last'.play = "none" /\ pending' = pending /\ activeSources' = {})]_vars

\* two sources were halted, the 'ended' event of one of them has been
\* delivered while isStoppedManually was true
C2_Witness ==
    /\ last.op = "LateEnded"
    /\ isStoppedManually
    /\ halted # {}
    /\ pending = EmptyBag

-----------------------------------------------------------------------------
(* C3 *)

\* C3 (its last clause): the schedule pass of a restart, i.e. of a playAudio
\* invocation made by an 'ended' handler that found the set empty with
\* isLooping and not isStoppedManually, starts with cumulativeOffset = 0.
C3_RestartStartsAtZero ==
    [][last'.op = "LoadComplete" =>
       \A inv \in DOMAIN pending :
         \A audioBuffers \in LoadResults(Files[inv.proj].projectURLs) :
            (/\ LoadComplete(inv, audioBuffers)
             /\ inv.note = "restart"
             /\ ~AllNull(audioBuffers))
               => cumulativeOffset = 0]_vars

-----------------------------------------------------------------------------
(* C4 *)

\* C4: the 'ended' events of the sources of one schedule pass cause at most
\* one playAudio invocation, in whatever order they are delivered.
C4_OneRestartPerCycle == \A p \in DOMAIN restarts : restarts[p] <= 1

-----------------------------------------------------------------------------
(* C5 *)

\* C5: the source of active step i of the k-th sequence of a schedule pass
\* is started at now + k * 64 * stepDuration(bpm) + i * stepDuration(bpm).
C5_Chaining ==
    \A s \in activeSources \cup halted :
        s.when = s.now + s.seq * 64 * stepDuration(s.bpm) + s.step * stepDuration(s.bpm)

-----------------------------------------------------------------------------
(* C6 *)

\* C6: a schedule pass creates exactly one source for each (sequence,
\* channel, step) whose step is active and whose channel index has a decoded
\* buffer, and no other source.
C6_OneSourcePerActiveStep ==
    [][last'.op = "LoadComplete" =>
       \A inv \in DOMAIN pending :
         \A audioBuffers \in LoadResults(Files[inv.proj].projectURLs) :
            (LoadComplete(inv, audioBuffers) /\ ~AllNull(audioBuffers))
               => LET created == activeSources' \ activeSources
                      want == Expected(inv.proj, audioBuffers)
                  IN  /\ \A s \in created : <<s.seq, s.ch, s.step>> \in want
                      /\ \A t \in want :
                           Cardinality({s \in created : <<s.seq, s.ch, s.step>> = t}) = 1
                      /\ nextId' - nextId = Cardinality(want)]_vars

\* a pass over the project Wide has run: its ch1 buffer is null, its ch3 is
\* past the end of the buffer list, and ch0 was scheduled
C6_Witness ==
    /\ last.op = "LoadComplete"
    /\ last.scheduled
    /\ \E c \in DOMAIN last.bufs : last.bufs[c] = Null
    /\ \E s \in activeSources : s.id = nextId - 1 /\ s.ch = 0

-----------------------------------------------------------------------------
(* C7 *)

\* C7: a load that resolves to null for every channel schedules nothing (no
\* source, cumulativeOffset as before, no playAudio call); a load with a
\* non-null buffer goes on to the schedule pass.
C7_AllNullSchedulesNothing ==
    [][last'.op = "LoadComplete" =>
       \A inv \in DOMAIN pending :
         \A audioBuffers \in LoadResults(Files[inv.proj].projectURLs) :
            LoadComplete(inv, audioBuffers)
               => IF AllNull(audioBuffers)
                    THEN /\ activeSources' = activeSources
                         /\ nextId' = nextId
                         /\ cumulativeOffset' = cumulativeOffset
                         /\ pending' = pending (-) SetToBag({inv})
                         /\ last'.play = "none"
                         /\ ~last'.scheduled
                    ELSE last'.scheduled]_vars

\* a load has resolved to null for every channel
C7_Witness ==
    /\ last.op = "LoadComplete"
    /\ last.bufs # << >>
    /\ AllNull(last.bufs)

-----------------------------------------------------------------------------
(* C8 *)

\* C8 as stated: the stop handler, run with an empty Active Source Set,
\* leaves Active Source Set, isLooping, isStoppedManually and
\* cumulativeOffset unchanged.
C8_StopChangesNothing ==
    [][(last'.op = "StopClick" /\ activeSources = {} /\ StopClick)
          => UNCHANGED <<activeSources, isLooping, isStoppedManually, cumulativeOffset>>]_vars

\* C8 as amended: the stop handler, run with an empty Active Source Set,
\* leaves Active Source Set, isLooping and cumulativeOffset unchanged, halts
\* nothing, and leaves isStoppedManually true.
C8_StopOnEmptySet ==
    [][(last'.op = "StopClick" /\ activeSources = {} /\ StopClick)
          => /\ UNCHANGED <<activeSources, isLooping, cumulativeOffset, halted>>
             /\ isStoppedManually']_vars

\* the stop handler has run with an empty set, with nothing to halt
C8_Witness ==
    /\ last.op = "StopClick"
    /\ halted = {}
    /\ activeSources = {}

-----------------------------------------------------------------------------
(* C9 *)

\* C9: a file that lacks a required field never becomes sequenceData (which
\* keeps its value), disables the play button, and is never the project of
\* a playAudio invocation, hence of a schedule pass.
C9_LackingFileRejected ==
    /\ [][\A file \in FileIds :
            (last'.op = "FileChange" /\ LacksRequired(file) /\ FileChange(file))
               => (sequenceData' = sequenceData /\ playDisabled')]_vars
    /\ [](/\ sequenceData # Undefined => ~LacksRequired(sequenceData)
          /\ \A inv \in DOMAIN pending : ~LacksRequired(inv.proj))

\* a lacking file was picked while a project was loaded
C9_Witness ==
    /\ last.op = "FileChange"
    /\ last.lacking
    /\ sequenceData # Undefined
    /\ playDisabled

-----------------------------------------------------------------------------
(* C10 *)

\* C10: a playAudio call made while the project data is absent or lacks
\* projectURLs or projectSequences has no effect.  The call is made by the
\* play button, by an 'ended' handler (after it removed its source) or by
\* handlePlaybackCompletion (after the schedule pass and after it cleared
\* isStoppedManually): BPM, the halted sources and the loads are as they
\* were, and Active Source Set, isStoppedManually and cumulativeOffset are
\* as the caller left them.
C10_RejectedPlayNoEffect ==
    [][/\ (last'.op = "PlayClick" /\ DataLacking /\ PlayClick)
          => UNCHANGED <<activeSources, isStoppedManually, cumulativeOffset, BPM,
                         halted, pending, nextId>>
       /\ \A source \in activeSources \cup halted :
            (/\ last'.play # "none"
             /\ DataLacking
             /\ SourceEnded(source) \/ LateEnded(source))
               => /\ activeSources' = activeSources \ {source}
                  /\ halted' = halted \ {source}
                  /\ UNCHANGED <<isStoppedManually, cumulativeOffset, BPM, pending, nextId>>
       /\ \A inv \in DOMAIN pending :
            \A audioBuffers \in LoadResults(Files[inv.proj].projectURLs) :
               (last'.play # "none" /\ DataLacking /\ LoadComplete(inv, audioBuffers))
                  => /\ activeSources' = {}
                     /\ pending' = pending (-) SetToBag({inv})
                     /\ cumulativeOffset' = cumulativeOffset
                           + Len(Files[inv.proj].projectSequences) * 64 * stepDuration(BPM)
                     /\ UNCHANGED <<BPM, halted, nextId>>]_vars

\* an 'ended' handler has called playAudio on a project without projectURLs
C10_Witness ==
    /\ last.op = "SourceEnded"
    /\ last.play = "rejected"
    /\ sequenceData # Undefined

-----------------------------------------------------------------------------
(* C11 *)

\* C11: while a playAudio invocation that passed validateSequenceData is
\* suspended in its load, and the stop handler has not run since it was
\* called, isStoppedManually is false.
C11_ClearedOnEntry ==
    \A inv \in DOMAIN pending : inv.note # "stopped" => ~isStoppedManually

-----------------------------------------------------------------------------
(* C12 *)

\* C12: the schedule pass of an automatic restart runs when the cycle of the
\* source whose end caused it is over, at that cycle's origin plus
\* numSequences * 64 * stepDuration(bpm), and starts no source before then.
C12_SeamlessLoop ==
    [][last'.op = "LoadComplete" =>
       \A inv \in DOMAIN pending :
         \A audioBuffers \in LoadResults(Files[inv.proj].projectURLs) :
            (/\ LoadComplete(inv, audioBuffers)
             /\ inv.note = "restart"
             /\ ~AllNull(audioBuffers))
               => /\ currentTime = inv.due
                  /\ \A s \in activeSources' \ activeSources : s.when >= inv.due]_vars

-----------------------------------------------------------------------------
(* C13 *)

\* C13: for a trim setting with 0 <= startPercent <= endPercent <= 100 and
\* a totalDuration >= 0, calculateTrimTimes returns a duration >= 0 and a
\* startTime <= totalDuration.
C13_OrderedBounds ==
    call.fn = "calculateTrimTimes" =>
       LET trimSetting == call.args[1]
           totalDuration == call.args[2]
       IN  (/\ 0 <= trimSetting.startSliderValue
            /\ trimSetting.startSliderValue <= trimSetting.endSliderValue
            /\ trimSetting.endSliderValue <= 100
            /\ totalDuration >= 0)
              => (call.result.duration >= 0 /\ call.result.startTime <= totalDuration)

\* calculateTrimTimes was called with ordered bounds inside 0..100 and
\* returned a region inside the buffer
C13_Witness ==
    /\ call.fn = "calculateTrimTimes"
    /\ call.args[1] = Trim(25, 75)
    /\ call.args[2] = 1000
    /\ call.result = [startTime |-> 250, duration |-> 500]

-----------------------------------------------------------------------------
(* C14 *)

\* C14 as stated: for a trim setting with endPercent < startPercent and a
\* totalDuration >= 0, calculateTrimTimes returns the duration 0.
C14_ReversedBounds ==
    call.fn = "calculateTrimTimes" =>
       LET trimSetting == call.args[1]
           totalDuration == call.args[2]
       IN  (/\ trimSetting.endSliderValue < trimSetting.startSliderValue
            /\ totalDuration >= 0)
              => call.result.duration = 0

\* C14 as amended: for a trim setting with endPercent < startPercent,
\* endPercent <= 100 and a totalDuration >= 0, calculateTrimTimes returns
\* the duration 0.
C14_ReversedBoundsInRange ==
    call.fn = "calculateTrimTimes" =>
       LET trimSetting == call.args[1]
           totalDuration == call.args[2]
       IN  (/\ trimSetting.endSliderValue < trimSetting.startSliderValue
            /\ trimSetting.endSliderValue <= 100
            /\ totalDuration >= 0)
              => call.result.duration = 0

\* calculateTrimTimes was called with reversed bounds inside 0..100 on a
\* buffer that has a duration, and returned the duration 0
C14_Witness ==
    /\ call.fn = "calculateTrimTimes"
    /\ call.args[1] = Trim(75, 25)
    /\ call.args[2] = 1000
    /\ call.result = [startTime |-> 750, duration |-> 0]

-----------------------------------------------------------------------------
(* C15 *)

\* C15: for a tempo bpm > 0, four times the step time is 60 / bpm seconds
\* (60000 / bpm ms) and 64 times the step time is 960 / bpm seconds.
C15_QuarterBeat ==
    call.fn = "calculateStepTime" =>
       LET bpm == call.args[1]
       IN  bpm > 0 => /\ call.result * 4 * bpm = 60000
                      /\ 64 * call.result * bpm = 960000

\* calculateStepTime was called at 120 bpm and returned 125 ms
C15_Witness ==
    /\ call.fn = "calculateStepTime"
    /\ call.args[1] = 120
    /\ call.result = 125

-----------------------------------------------------------------------------
(* C16 *)

\* C16: whenever a playAudio invocation, its buffers loaded, starts to walk
\* the sequences, cumulativeOffset is 0.
C16_PassStartsAtZero ==
    [][last'.op = "LoadComplete" =>
       \A inv \in DOMAIN pending :
         \A audioBuffers \in LoadResults(Files[inv.proj].projectURLs) :
            (LoadComplete(inv, audioBuffers) /\ isValidAudioBuffers(audioBuffers))
               => cumulativeOffset = 0]_vars

-----------------------------------------------------------------------------
(* C17 *)

\* C17: in a schedule pass cumulativeOffset has advanced by
\* k * 64 * stepDuration(BPM) after the first k sequences, whatever their
\* steps and buffers are; when the pass is over (and
\* handlePlaybackCompletion does not start playAudio again, which resets
\* it) it is n * 64 * stepDuration(BPM) above where the pass began.
C17_OffsetAdvance ==
    [][last'.op = "LoadComplete" =>
       \A inv \in DOMAIN pending :
         \A audioBuffers \in LoadResults(Files[inv.proj].projectURLs) :
            (LoadComplete(inv, audioBuffers) /\ isValidAudioBuffers(audioBuffers))
               => LET f == Files[inv.proj]
                      n == Len(f.projectSequences)
                      tag == [pass |-> nextId, seq |-> 0, ch |-> 0, step |-> 0, span |-> 0]
                      after(k) == scheduleSequences(Cur, SubSeq(f.projectSequences, 1, k), 1,
                                                    audioBuffers, f.trimSettings, tag)
                  IN  /\ \A k \in 0..n :
                           after(k).cumulativeOffset
                              = cumulativeOffset + k * 64 * stepDuration(BPM)
                      /\ last'.play # "started"
                           => cumulativeOffset'
                                 = cumulativeOffset + n * 64 * stepDuration(BPM)]_vars

\* a pass over two sequences that began at 0 is over
C17_Witness ==
    /\ last.op = "LoadComplete"
    /\ last.scheduled
    /\ BPM = 120
    /\ cumulativeOffset = 2 * 64 * stepDuration(120)

-----------------------------------------------------------------------------
(* C18 *)

\* C18: when a playAudio invocation has finished its schedule pass, every
\* source in the Active Source Set was created by that pass.
C18_OnlyThisPass ==
    [][last'.op = "LoadComplete" =>
       \A inv \in DOMAIN pending :
         \A audioBuffers \in LoadResults(Files[inv.proj].projectURLs) :
            (LoadComplete(inv, audioBuffers) /\ isValidAudioBuffers(audioBuffers))
               => \A s \in activeSources' : s.pass = nextId /\ s \notin activeSources]_vars

-----------------------------------------------------------------------------
(* C19 *)

\* C19: a playAudio invocation whose schedule pass (at least one buffer
\* loaded) ends with an empty Active Source Set while isLooping is true calls
\* playAudio again at once: a new invocation is suspended in its load when
\* the project data is valid.  One whose pass ends with a non-empty set calls
\* nothing and the sources stay in the set.
C19_DegenerateRestart ==
    [][last'.op = "LoadComplete" =>
       \A inv \in DOMAIN pending :
         \A audioBuffers \in LoadResults(Files[inv.proj].projectURLs) :
            (LoadComplete(inv, audioBuffers) /\ isValidAudioBuffers(audioBuffers))
               => IF activeSources = {} /\ Expected(inv.proj, audioBuffers) = {}
                    THEN isLooping
                           => /\ last'.play # "none"
                              /\ activeSources' = {}
                              /\ ~DataLacking
                                   => pending' = (pending (-) SetToBag({inv}))
                                                   (+) SetToBag({Invocation(sequenceData, Plain)})
                    ELSE /\ last'.play = "none"
                         /\ pending' = pending (-) SetToBag({inv})
                         /\ activeSources' # {}
                         /\ activeSources \subseteq activeSources']_vars

\* a pass over a project without active steps has ended with an empty set,
\* and playAudio was called again and is suspended in its load
C19_Witness ==
    /\ last.op = "LoadComplete"
    /\ last.scheduled
    /\ last.play = "started"
    /\ activeSources = {}
    /\ pending # EmptyBag

-----------------------------------------------------------------------------
(* C20 *)

\* C20: in whatever order the loads of the channel URLs resolve, the buffer
\* at channel index c is the one the c-th URL resolved to, every source of
\* channel c plays that buffer trimmed by the c-th trim setting, and the
\* (start time, channel) pairs scheduled are those of the active steps of
\* the channels whose own URL gave a buffer: they depend on what the loads
\* resolved to, not on the order.
C20_LoadOrderIrrelevant ==
    call.fn = "loadAudioBuffers" =>
       LET project == call.args[1]
           settled == call.result.settled
           audioBuffers == call.result.audioBuffers
           sources == call.result.sources
           outcomes == {settled[i] : i \in DOMAIN settled}
           byURL == [c \in DOMAIN project.projectURLs |->
                       (CHOOSE o \in outcomes : o[1] = c)[2]]
           step == stepDuration(project.projectBPM)
       IN  Len(settled) = Len(project.projectURLs)
              => /\ DOMAIN audioBuffers = DOMAIN project.projectURLs
                 /\ \A o \in outcomes : audioBuffers[o[1]] = o[2]
                 /\ \A s \in sources :
                       /\ s.total = BufferOf(s.ch + 1)
                       /\ [startTime |-> s.offset, duration |-> s.duration]
                             = calculateTrimTimes(project.trimSettings[s.ch + 1], s.total)
                 /\ {<<s.when, s.ch>> : s \in sources}
                       = {<<t[1] * 64 * step + t[3] * step, t[2]>> :
                             t \in ExpectedIn(project.projectSequences, byURL)}

\* the three loads of Trio resolved last URL first, the second to null, and
\* the pass scheduled sources
C20_Witness ==
    /\ call.fn = "loadAudioBuffers"
    /\ call.result.settled = << <<3, BufferOf(3)>>, <<1, BufferOf(1)>>, <<2, Null>> >>
    /\ call.result.audioBuffers = <<BufferOf(1), Null, BufferOf(3)>>
    /\ call.result.sources # {}

-----------------------------------------------------------------------------
(* C21 *)

\* C21: once the user has pressed stop and presses no button after it, the
\* controller comes to rest with isStoppedManually true.  Only the stop
\* handler sets isStoppedManually, so it has to be true from that stop on:
\* no load that resolves and no 'ended' event clears it.
C21_StopBringsToRest == userDone => isStoppedManually

-----------------------------------------------------------------------------
(* C22 *)

\* C22: isLooping is true in every reachable state, and the 'ended' event of
\* a source that played to its end and was the last one in the Active Source
\* Set calls playAudio unless isStoppedManually is true: the call suspends a
\* new invocation in its load, or is rejected because the project data lacks
\* projectURLs or projectSequences.
C22_AlwaysLooping ==
    /\ [](isLooping)
    /\ [][last'.op = "SourceEnded" =>
          \A source \in activeSources :
             (SourceEnded(source) /\ activeSources = {source} /\ ~isStoppedManually)
                => /\ last'.play # "none"
                   /\ last'.play = "rejected" => (DataLacking /\ pending' = pending)
                   /\ last'.play = "started"
                        => pending' = pending
                                        (+) SetToBag({Invocation(sequenceData,
                                                                 Restart(source))})]_vars

\* the last source of the set has played to its end and its 'ended' handler
\* has started a restart
C22_Witness ==
    /\ last.op = "SourceEnded"
    /\ last.play = "started"
    /\ activeSources = {}
    /\ \E inv \in DOMAIN pending : inv.note = "restart"
    /\ isLooping

-----------------------------------------------------------------------------
(* C23 *)

\* C23: the Active Source Set holds exactly the sources that a schedule pass
\* created and started and that have since neither delivered their 'ended'
\* event nor been halted by stopAudio:
\*   - every source in the set was created, each only once, and no halted
\*     source is in it;
\*   - a source enters the set only when it is created, so one that left
\*     never comes back;
\*   - a source leaves the set only when it delivers its 'ended' event or
\*     when stopAudio halts it;
\*   - the 'ended' event of a source that is no longer in the set leaves the
\*     set unchanged.
C23_Membership ==
    /\ [](/\ \A s \in activeSources : s.id < nextId
          /\ \A s, t \in activeSources : s.id = t.id => s = t
          /\ activeSources \cap halted = {})
    /\ [][/\ \A s \in activeSources' \ activeSources : s.id >= nextId /\ s.id < nextId'
          /\ \A s \in activeSources \ activeSources' :
                \/ last'.op = "SourceEnded" /\ SourceEnded(s)
                \/ s \in halted'
          /\ \A source \in halted :
                (last'.op = "LateEnded" /\ LateEnded(source))
                   => activeSources' = activeSources]_vars

\* a source halted by stopAudio has delivered its 'ended' event while a
\* source of a later pass was in the set
C23_Witness ==
    /\ last.op = "LateEnded"
    /\ activeSources # {}
    /\ \A s \in activeSources : s.id = nextId - 1
    /\ halted = {}

=============================================================================
